---- MODULE Spec2Model ----
(***************************************************************************)
(* Organizer mail views of pretalx (src/pretalx/orga/views/mails.py):      *)
(* outbox send / purge, mail detail (edit), mail copy and compose, run as  *)
(* requests against a shared table of QueuedMail rows.                     *)
(***************************************************************************)
EXTENDS Integers, Sequences, FiniteSets, TLC

(* ------------------------------ bounds --------------------------------- *)
\* largest primary key the QueuedMail table hands out in Spec / SpecSend / SpecConc
MaxId == 2
\* largest value of the clock that mail.send stamps into `sent`
MaxClock == 2
\* number of requests that can be in flight at once in SpecSend / SpecConc
MaxReqs == 2
\* longest additional_recipients text enumerated in SpecCompose
MaxLen == 4

(* --------------------------- the data store ---------------------------- *)
Null == "None"
Events == {"E1", "E2"}
Users == {"u1", "u2", "u3"}

\* User.email, stored with whatever case the account was created with
UserEmail ==
  [u \in Users |->
     CASE u = "u1" -> <<"a">>
       [] u = "u2" -> <<"b", "A">>
       [] OTHER    -> <<"A", "a">>]

\* rows of event.submissions with the columns ComposeMail filters on;
\* speakers is the reverse side of User.submissions
Submissions ==
  { [code |-> "s1", event |-> "E1", track |-> "t1", type |-> "ty1",
     state |-> "submitted", resources |-> 0, speakers |-> {"u1"}],
    [code |-> "s2", event |-> "E1", track |-> "t1", type |-> "ty2",
     state |-> "confirmed", resources |-> 0, speakers |-> {"u1", "u2"}],
    [code |-> "s3", event |-> "E1", track |-> "t2", type |-> "ty1",
     state |-> "confirmed", resources |-> 1, speakers |-> {"u3"}],
    [code |-> "s4", event |-> "E2", track |-> "t3", type |-> "ty3",
     state |-> "submitted", resources |-> 0, speakers |-> {"u3"}] }

\* rows of event.teams
Teams ==
  { [event |-> "E1", is_reviewer |-> TRUE,  members |-> {"u2"}],
    [event |-> "E1", is_reviewer |-> FALSE, members |-> {"u3"}],
    [event |-> "E2", is_reviewer |-> TRUE,  members |-> {"u1"}] }

(* ------------------------------ strings -------------------------------- *)
Chars == {"a", "A", "b", ",", " "}

\* str.lower() on one character
LowerChar(c) == IF c = "A" THEN "a" ELSE c

\* str.lower()
Lower(s) == [i \in 1..Len(s) |-> LowerChar(s[i])]

\* str.strip(): drop leading and trailing whitespace
RECURSIVE Strip(_)
Strip(s) ==
  IF s = <<>> THEN s
  ELSE IF Head(s) = " " THEN Strip(Tail(s))
  ELSE IF s[Len(s)] = " " THEN Strip(SubSeq(s, 1, Len(s) - 1))
  ELSE s

\* str.split(','): the pieces between commas, empty pieces included
RECURSIVE Split(_)
Split(s) ==
  IF \A i \in 1..Len(s) : s[i] # ","
  THEN <<s>>
  ELSE LET i == CHOOSE k \in 1..Len(s) :
                  s[k] = "," /\ \A j \in 1..(k - 1) : s[j] # ","
       IN  <<SubSeq(s, 1, i - 1)>> \o Split(SubSeq(s, i + 1, Len(s)))

\* [f(x) for x in seq if keep(x)]
RECURSIVE StripLowerNonEmpty(_)
StripLowerNonEmpty(ps) ==
  IF ps = <<>> THEN <<>>
  ELSE IF Strip(Head(ps)) # <<>>
       THEN <<Lower(Strip(Head(ps)))>> \o StripLowerNonEmpty(Tail(ps))
       ELSE StripLowerNonEmpty(Tail(ps))

\* the list comprehension additional_mails of ComposeMail.form_valid
additional_mails(text) == StripLowerNonEmpty(Split(text))

\* the lookup with email= in place of email__iexact=
UsersByEmailExact(email) == {u \in Users : UserEmail[u] = email}

\* User.objects.filter(email__iexact=email): case-insensitive equality
UsersByEmail(email) == {u \in Users : Lower(UserEmail[u]) = Lower(email)}

\* all strings of at most n characters
RECURSIVE Strings(_)
Strings(n) ==
  IF n = 0 THEN {<<>>}
  ELSE LET shorter == Strings(n - 1)
       IN  shorter \cup {Append(t, c) : t \in {x \in shorter : Len(x) = n - 1}, c \in Chars}

(* ------------------------------- state --------------------------------- *)
VARIABLES
  db,         \* the QueuedMail table: primary key -> row
  nextId,     \* the next primary key the table hands out
  now,        \* the clock mail.send reads
  sendCount,  \* per primary key, how often mail.send has delivered it
  pc,         \* per request slot, where the handler stands
  req,        \* per request slot, the request being handled
  pre,        \* per request slot, the table as it was when the request arrived
  loc,        \* per request slot, the handler's local variables
  msgs,       \* per request slot, the flash messages emitted so far
  trace       \* per request slot, the model/queue calls made so far, in order

vars == <<db, nextId, now, sendCount, pc, req, pre, loc, msgs, trace>>

Slots == 1..MaxReqs

\* a QueuedMail row; sent = 0 stands for NULL, text for subject/text/reply_to/cc/bcc
Row(e, to, users, text, sent) ==
  [event |-> e, to |-> to, to_users |-> users, text |-> text, sent |-> sent]

NoRow == Row(Null, <<>>, {}, 0, 0)

\* the fields of WriteMailForm / MailDetailForm the handlers read
Form(subs, tracks, types, recipients, additional, text, action) ==
  [submissions |-> subs, tracks |-> tracks, submission_types |-> types,
   recipients |-> recipients, additional_recipients |-> additional,
   text |-> text, action |-> action]

NoForm == Form({}, {}, {}, {}, <<>>, 0, "save")

Request(view, e, pk, method, form) ==
  [view |-> view, event |-> e, pk |-> pk, method |-> method, form |-> form]

NoRequest == Request(Null, Null, 0, Null, NoForm)

Local(mail, pk, existed, count, todo) ==
  [mail |-> mail, pk |-> pk, existed |-> existed, count |-> count, todo |-> todo]

NoLocal == Local(NoRow, 0, FALSE, 0, <<>>)

\* messages.success / messages.error
Msg(level, text, count) == [level |-> level, text |-> text, count |-> count]

\* one call on a model object or queryset
Call(op, pk, tag) == [op |-> op, pk |-> pk, tag |-> tag]

\* event.queued_mails
queued_mails(d, e) == {id \in DOMAIN d : d[id].event = e}

\* the outbox queryset without its sent__isnull filter
OutboxIgnoringSent(d, e) == queued_mails(d, e)

\* event.queued_mails.filter(sent__isnull=True)
Outbox(d, e) == {id \in queued_mails(d, e) : d[id].sent = 0}

\* the ids of a set in ascending order
RECURSIVE Ascending(_)
Ascending(S) ==
  IF S = {} THEN <<>>
  ELSE LET m == CHOOSE x \in S : \A y \in S : x <= y
       IN  <<m>> \o Ascending(S \ {m})

\* the table with rows appended under fresh primary keys first, first + 1, ...
Insert(d, first, rows) ==
  [id \in DOMAIN d \cup {first + i - 1 : i \in 1..Len(rows)} |->
     IF id \in DOMAIN d THEN d[id] ELSE rows[id - first + 1]]

\* Model.save() of an instance with a primary key: UPDATE, else INSERT
Save(d, pk, row) ==
  [id \in DOMAIN d \cup {pk} |-> IF id = pk THEN row ELSE d[id]]

\* Model.delete(): by primary key
Delete(d, ids) == [id \in DOMAIN d \ ids |-> d[id]]

Init ==
  /\ db = <<>>
  /\ nextId = 1
  /\ now = 0
  /\ sendCount = [id \in 1..MaxId |-> 0]
  /\ pc = [r \in Slots |-> "idle"]
  /\ req = [r \in Slots |-> NoRequest]
  /\ pre = [r \in Slots |-> <<>>]
  /\ loc = [r \in Slots |-> NoLocal]
  /\ msgs = [r \in Slots |-> <<>>]
  /\ trace = [r \in Slots |-> <<>>]

\* a slot that handles no request
Free(r) == pc[r] = "idle"

(* ------------------------------ compose -------------------------------- *)
\* User.objects.filter(submissions__in=subs)
SubmissionUsers(subs) == UNION {s.speakers : s \in subs}

\* event.submissions
EventSubmissions(e) == {s \in Submissions : s.event = e}

\* the users of one entry of cleaned_data['recipients']
RecipientUsers(e, recipient) ==
  IF recipient = "reviewers"
  THEN UNION {t.members : t \in {t \in Teams : t.event = e /\ t.is_reviewer}}
  ELSE IF recipient = "no_slides"
  THEN SubmissionUsers({s \in EventSubmissions(e) :
                          s.resources = 0 /\ s.state = "confirmed"})
  ELSE SubmissionUsers({s \in EventSubmissions(e) : s.state = recipient})

\* user_set after the submissions, tracks, submission_types and recipients blocks
CriteriaUsers(e, f) ==
  LET bySubmission ==
        IF f.submissions # {}
        THEN SubmissionUsers({s \in EventSubmissions(e) : s.code \in f.submissions})
        ELSE {}
      byTrack ==
        IF f.tracks # {}
        THEN SubmissionUsers({s \in EventSubmissions(e) : s.track \in f.tracks})
        ELSE {}
      byType ==
        IF f.submission_types # {}
        THEN SubmissionUsers({s \in EventSubmissions(e) : s.type \in f.submission_types})
        ELSE {}
      byRecipient == UNION {RecipientUsers(e, rc) : rc \in f.recipients}
  IN  bySubmission \cup byTrack \cup byType \cup byRecipient

\* the loop over additional_mails: a matching user joins user_set, any other
\* address gets its own row at once
RECURSIVE AddressLoop(_, _, _)
AddressLoop(mails, user_set, created) ==
  IF mails = <<>> THEN [user_set |-> user_set, created |-> created]
  ELSE LET email == Head(mails)
           found == UsersByEmail(email)
       IN  IF found # {}
           THEN AddressLoop(Tail(mails), user_set \cup {CHOOSE u \in found : TRUE}, created)
           ELSE AddressLoop(Tail(mails), user_set, Append(created, email))

\* the orders in which `for user in user_set` can visit the set
Orders(S) ==
  {o \in [1..Cardinality(S) -> S] : \A i, j \in DOMAIN o : o[i] = o[j] => i = j}

\* the count ComposeMail.form_valid puts into its success message
ComposeCount(user_set, mails) == Cardinality(user_set) + Len(mails)

\* the rows ComposeMail.form_valid creates, in creation order
ComposeRows(e, f, order) ==
  LET res == AddressLoop(additional_mails(f.additional_recipients), CriteriaUsers(e, f), <<>>)
  IN  [i \in 1..Len(res.created) |-> Row(e, res.created[i], {}, f.text, 0)]
      \o [i \in 1..Len(order) |-> Row(e, <<>>, {order[i]}, f.text, 0)]

\* the slot's part of one step of a handler. With keep, the answered request stays
\* on record (what arrived, the table it found, its messages and calls) until its
\* response has left; without, an answered request leaves nothing behind
Step(r, keep, pc1, req1, pre1, loc1, msgs1, trace1) ==
  IF keep
  THEN /\ pc' = [pc EXCEPT ![r] = pc1]
       /\ req' = [req EXCEPT ![r] = req1]
       /\ pre' = [pre EXCEPT ![r] = pre1]
       /\ loc' = [loc EXCEPT ![r] = loc1]
       /\ msgs' = [msgs EXCEPT ![r] = msgs1]
       /\ trace' = [trace EXCEPT ![r] = trace1]
  ELSE /\ pc' = [pc EXCEPT ![r] = IF pc1 = "done" THEN "idle" ELSE pc1]
       /\ req' = [req EXCEPT ![r] = IF pc1 = "done" THEN NoRequest ELSE req1]
       /\ loc' = [loc EXCEPT ![r] = IF pc1 = "done" THEN NoLocal ELSE loc1]
       /\ UNCHANGED <<pre, msgs, trace>>

\* the first step of a handler: a request arrives and takes the first free slot
Arrive(r, keep, pc1, req1, loc1, msgs1, trace1) ==
  /\ Free(r)
  /\ \A q \in Slots : q < r => ~Free(q)
  /\ Step(r, keep, pc1, req1, db, loc1, msgs1, trace1)

\* a later step of a handler
Continue(r, keep, pc1, loc1, msgs1, trace1) ==
  Step(r, keep, pc1, req[r], pre[r], loc1, msgs1, trace1)

\* `return redirect(...)`: the response leaves and the slot is free again
Respond(r) ==
  /\ pc[r] = "done"
  /\ pc' = [pc EXCEPT ![r] = "idle"]
  /\ req' = [req EXCEPT ![r] = NoRequest]
  /\ pre' = [pre EXCEPT ![r] = <<>>]
  /\ loc' = [loc EXCEPT ![r] = NoLocal]
  /\ msgs' = [msgs EXCEPT ![r] = <<>>]
  /\ trace' = [trace EXCEPT ![r] = <<>>]
  /\ UNCHANGED <<db, nextId, now, sendCount>>

\* ComposeMail.form_valid
ComposeMailFormValid(r, keep, e, f) ==
  LET mails == additional_mails(f.additional_recipients)
      res == AddressLoop(mails, CriteriaUsers(e, f), <<>>)
  IN  /\ \E order \in Orders(res.user_set) :
           LET rows == ComposeRows(e, f, order)
           IN  /\ db' = Insert(db, nextId, rows)
               /\ nextId' = nextId + Len(rows)
               /\ Arrive(r, keep, "done", Request("ComposeMail", e, 0, "POST", f), NoLocal,
                         <<Msg("success", "emails have been saved to the outbox",
                               ComposeCount(res.user_set, mails))>>,
                         [i \in 1..Len(rows) |-> Call("create", nextId + i - 1, "")])
      /\ UNCHANGED <<now, sendCount>>

\* the number of rows one compose submission creates
ComposeSize(e, f) ==
  LET res == AddressLoop(additional_mails(f.additional_recipients), CriteriaUsers(e, f), <<>>)
  IN  Cardinality(res.user_set) + Len(res.created)

(* ---------------------------- mail.send -------------------------------- *)
\* QueuedMail.send(): stamps `sent` on the row
MailSendRow(d, pk, t) ==
  IF pk \in DOMAIN d THEN [d EXCEPT ![pk].sent = t] ELSE d

\* QueuedMail.send(): one delivery, then the stamp
MailSend(pk) ==
  /\ now < MaxClock
  /\ now' = now + 1
  /\ sendCount' = [sendCount EXCEPT ![pk] = @ + 1]
  /\ db' = MailSendRow(db, pk, now + 1)

\* the handlers without their check of `sent`
AlreadySentNever(mail) == FALSE

\* `if mail.sent` / `form.instance.sent is not None`
AlreadySent(mail) == mail.sent # 0

(* ----------------------------- OutboxSend ------------------------------ *)
\* OutboxSend.dispatch with 'pk' in kwargs: the lookup and the two error branches
OutboxSendDispatch(r, keep, e, pk, method) ==
  LET rq == Request("OutboxSend", e, pk, method, NoForm)
  IN  /\ IF pk \notin queued_mails(db, e)
         THEN Arrive(r, keep, "done", rq, NoLocal,
                     <<Msg("error", "does not exist or was sent already", 0)>>, <<>>)
         ELSE IF AlreadySent(db[pk])
         THEN Arrive(r, keep, "done", rq, Local(db[pk], pk, TRUE, 0, <<>>),
                     <<Msg("error", "This mail had been sent already.", 0)>>, <<>>)
         ELSE Arrive(r, keep, "send", rq, Local(db[pk], pk, TRUE, 0, <<>>), <<>>, <<>>)
      /\ UNCHANGED <<db, nextId, now, sendCount>>

\* OutboxSend.dispatch, the else branch: mail.send, then the success message
OutboxSendMail(r, keep) ==
  /\ pc[r] = "send"
  /\ MailSend(loc[r].pk)
  /\ Continue(r, keep, "done", loc[r],
              Append(msgs[r], Msg("success", "The mail has been sent.", 0)),
              Append(trace[r], Call("send", loc[r].pk, "")))
  /\ UNCHANGED nextId

\* OutboxSend without pk, GET: TemplateView renders the confirmation question
OutboxSendGet(r, keep, e) ==
  /\ Arrive(r, keep, "done", Request("OutboxSend", e, 0, "GET", NoForm),
            Local(NoRow, 0, FALSE, Cardinality(Outbox(db, e)), <<>>), <<>>, <<>>)
  /\ UNCHANGED <<db, nextId, now, sendCount>>

\* OutboxSend.post: count = qs.count()
OutboxSendPost(r, keep, e) ==
  /\ Arrive(r, keep, "send_fetch", Request("OutboxSend", e, 0, "POST", NoForm),
            Local(NoRow, 0, FALSE, Cardinality(Outbox(db, e)), <<>>), <<>>, <<>>)
  /\ UNCHANGED <<db, nextId, now, sendCount>>

\* the loop of OutboxSend.post over all mails of the event, sent ones included
OutboxSendFetchAll(r, keep) ==
  /\ pc[r] = "send_fetch"
  /\ Continue(r, keep, "send_loop",
              [loc[r] EXCEPT !.todo = Ascending(queued_mails(db, req[r].event))],
              msgs[r], trace[r])
  /\ UNCHANGED <<db, nextId, now, sendCount>>

\* the loop of OutboxSend.post over the unsent mails of every event
OutboxSendFetchAnyEvent(r, keep) ==
  /\ pc[r] = "send_fetch"
  /\ Continue(r, keep, "send_loop",
              [loc[r] EXCEPT !.todo = Ascending({id \in DOMAIN db : db[id].sent = 0})],
              msgs[r], trace[r])
  /\ UNCHANGED <<db, nextId, now, sendCount>>

\* OutboxSend.post: `for mail in qs` evaluates the queryset
OutboxSendFetch(r, keep) ==
  /\ pc[r] = "send_fetch"
  /\ Continue(r, keep, "send_loop",
              [loc[r] EXCEPT !.todo = Ascending(Outbox(db, req[r].event))],
              msgs[r], trace[r])
  /\ UNCHANGED <<db, nextId, now, sendCount>>

\* OutboxSend.post: one iteration of the loop
OutboxSendLoop(r, keep) ==
  /\ pc[r] = "send_loop"
  /\ loc[r].todo # <<>>
  /\ MailSend(Head(loc[r].todo))
  /\ Continue(r, keep, "send_loop", [loc[r] EXCEPT !.todo = Tail(@)], msgs[r],
              Append(trace[r], Call("send", Head(loc[r].todo), "")))
  /\ UNCHANGED nextId

\* OutboxSend.post: the success message after the loop
OutboxSendReport(r, keep) ==
  /\ pc[r] = "send_loop"
  /\ loc[r].todo = <<>>
  /\ Continue(r, keep, "done", loc[r],
              Append(msgs[r], Msg("success", "mails have been sent.", loc[r].count)),
              trace[r])
  /\ UNCHANGED <<db, nextId, now, sendCount>>

(* ----------------------------- OutboxPurge ----------------------------- *)
\* OutboxPurge.dispatch with 'pk' in kwargs: the lookup among the unsent rows
OutboxPurgeDispatch(r, keep, e, pk, method) ==
  LET rq == Request("OutboxPurge", e, pk, method, NoForm)
  IN  /\ IF pk \notin Outbox(db, e)
         THEN Arrive(r, keep, "done", rq, NoLocal,
                     <<Msg("error", "does not exist or was sent already", 0)>>, <<>>)
         ELSE IF AlreadySent(db[pk])
         THEN Arrive(r, keep, "done", rq, Local(db[pk], pk, TRUE, 0, <<>>),
                     <<Msg("error", "This mail had been sent already.", 0)>>, <<>>)
         ELSE Arrive(r, keep, "purge", rq, Local(db[pk], pk, TRUE, 0, <<>>), <<>>, <<>>)
      /\ UNCHANGED <<db, nextId, now, sendCount>>

\* the single-record purge deleting through the view's queryset without its pk filter
OutboxPurgeDeleteQueryset(r, keep) ==
  /\ pc[r] = "purge"
  /\ db' = Delete(db, Outbox(db, req[r].event))
  /\ Continue(r, keep, "done", loc[r],
              Append(msgs[r], Msg("success", "The mail has been deleted.", 0)),
              trace[r] \o <<Call("log", loc[r].pk, "pretalx.mail.delete"),
                            Call("delete", loc[r].pk, "")>>)
  /\ UNCHANGED <<nextId, now, sendCount>>

\* OutboxPurge.dispatch, the else branch: log_action, mail.delete, success message
OutboxPurgeDelete(r, keep) ==
  /\ pc[r] = "purge"
  /\ db' = Delete(db, {loc[r].pk})
  /\ Continue(r, keep, "done", loc[r],
              Append(msgs[r], Msg("success", "The mail has been deleted.", 0)),
              trace[r] \o <<Call("log", loc[r].pk, "pretalx.mail.delete"),
                            Call("delete", loc[r].pk, "")>>)
  /\ UNCHANGED <<nextId, now, sendCount>>

\* OutboxPurge without pk, GET: TemplateView renders the confirmation question
OutboxPurgeGet(r, keep, e) ==
  /\ Arrive(r, keep, "done", Request("OutboxPurge", e, 0, "GET", NoForm),
            Local(NoRow, 0, FALSE, Cardinality(Outbox(db, e)), <<>>), <<>>, <<>>)
  /\ UNCHANGED <<db, nextId, now, sendCount>>

\* OutboxPurge.post: count = qs.count()
OutboxPurgePost(r, keep, e) ==
  /\ Arrive(r, keep, "purge_all", Request("OutboxPurge", e, 0, "POST", NoForm),
            Local(NoRow, 0, FALSE, Cardinality(Outbox(db, e)), <<>>), <<>>, <<>>)
  /\ UNCHANGED <<db, nextId, now, sendCount>>

\* OutboxPurge.post: qs.delete() and the success message
OutboxPurgeQsDelete(r, keep) ==
  LET gone == Outbox(db, req[r].event)
  IN  /\ pc[r] = "purge_all"
      /\ db' = Delete(db, gone)
      /\ Continue(r, keep, "done", loc[r],
                  Append(msgs[r], Msg("success", "mails have been purged.", loc[r].count)),
                  trace[r] \o [i \in 1..Cardinality(gone) |->
                                 Call("delete", Ascending(gone)[i], "")])
      /\ UNCHANGED <<nextId, now, sendCount>>

(* ----------------------------- MailDetail ------------------------------ *)
\* the MailDetailForm submissions: a text that differs from a composed mail's and
\* from a fresh draft's and equals an edited mail's, with either action
DetailForms == {Form({}, {}, {}, {}, <<>>, 2, a) : a \in {"save", "send"}}

\* MailDetail.get_object and the form bound to it (a fresh QueuedMail if None)
MailDetailPost(r, keep, e, pk, f) ==
  /\ pk \in queued_mails(db, e) \/ nextId <= MaxId
  /\ Arrive(r, keep, "form_valid", Request("MailDetail", e, pk, "POST", f),
            IF pk \in queued_mails(db, e)
            THEN Local(db[pk], pk, TRUE, 0, <<>>)
            ELSE Local(NoRow, 0, FALSE, 0, <<>>),
            <<>>, <<>>)
  /\ UNCHANGED <<db, nextId, now, sendCount>>

\* self.object as MailDetail.form_valid reads it after super().form_valid(form),
\* which has assigned it the saved instance
ObjectAfterSave(saved, loaded) == saved

\* the audit action MailDetail.form_valid logs
LogTag(object) == IF object # NoRow THEN "pretalx.mail.update" ELSE "pretalx.mail.create"

\* MailDetail.form_valid up to the action selector
MailDetailFormValid(r, keep) ==
  LET f == req[r].form
      instance == [loc[r].mail EXCEPT !.event = req[r].event]
      saved == [instance EXCEPT !.text = f.text]
      pk == IF loc[r].existed THEN loc[r].pk ELSE nextId
      changed == f.text # loc[r].mail.text
      object == ObjectAfterSave(saved, IF loc[r].existed THEN loc[r].mail ELSE NoRow)
      calls == <<Call("save", pk, "")>>
               \o (IF changed THEN <<Call("log", pk, LogTag(object))>> ELSE <<>>)
      loc1 == [loc[r] EXCEPT !.pk = pk, !.mail = saved]
  IN  /\ pc[r] = "form_valid"
      /\ IF AlreadySent(instance)
         THEN /\ Continue(r, keep, "done", loc[r],
                          <<Msg("error", "already sent, you cannot edit it anymore", 0)>>,
                          trace[r])
              /\ UNCHANGED <<db, nextId>>
         ELSE /\ loc[r].existed \/ nextId <= MaxId
              /\ db' = Save(db, pk, saved)
              /\ nextId' = IF loc[r].existed THEN nextId ELSE nextId + 1
              /\ IF f.action = "save"
                 THEN Continue(r, keep, "done", loc1,
                               <<Msg("success", "The email has been saved.", 0)>>,
                               trace[r] \o calls)
                 ELSE Continue(r, keep, "detail_send", loc1, msgs[r], trace[r] \o calls)
      /\ UNCHANGED <<now, sendCount>>

\* MailDetail.form_valid, action 'send': form.instance.send() and the message
MailDetailSend(r, keep) ==
  /\ pc[r] = "detail_send"
  /\ MailSend(loc[r].pk)
  /\ Continue(r, keep, "done", loc[r],
              Append(msgs[r], Msg("success", "The email has been sent.", 0)),
              Append(trace[r], Call("send", loc[r].pk, "")))
  /\ UNCHANGED nextId

(* ------------------------------ MailCopy ------------------------------- *)
\* QueuedMail.copy_to_draft(): the same row, unsent
CopyToDraft(row) == [row EXCEPT !.sent = 0]

\* MailCopy.dispatch
MailCopyDispatch(r, keep, e, pk) ==
  LET rq == Request("MailCopy", e, pk, "GET", NoForm)
  IN  /\ IF pk \in queued_mails(db, e)
         THEN /\ nextId <= MaxId
              /\ db' = Insert(db, nextId, <<CopyToDraft(db[pk])>>)
              /\ nextId' = nextId + 1
              /\ Arrive(r, keep, "done", rq, NoLocal,
                        <<Msg("success", "The mail has been copied.", 0)>>,
                        <<Call("create", nextId, "")>>)
         ELSE /\ Arrive(r, keep, "done", rq, NoLocal, <<Msg("http404", "", 0)>>, <<>>)
              /\ UNCHANGED <<db, nextId>>
      /\ UNCHANGED <<now, sendCount>>

(* --------------------------- specifications ---------------------------- *)
\* the compose submissions the outbox specifications draw from
OutboxForms ==
  { Form({}, {}, {}, {}, <<"b">>, 1, "save"),
    Form({"s1", "s4"}, {}, {}, {}, <<"a">>, 1, "save") }

\* a compose submission the table has room for
Compose(r, keep, events) ==
  \E e \in events, f \in OutboxForms :
    /\ nextId + ComposeSize(e, f) - 1 <= MaxId
    /\ ComposeMailFormValid(r, keep, e, f)

Ids == 1..MaxId

\* the steps of a send request
SendSteps(r, keep, events, methods) ==
  \/ \E e \in events, pk \in Ids, m \in methods : OutboxSendDispatch(r, keep, e, pk, m)
  \/ OutboxSendMail(r, keep)
  \/ \E e \in events : OutboxSendGet(r, keep, e)
  \/ \E e \in events : OutboxSendPost(r, keep, e)
  \/ OutboxSendFetch(r, keep)
  \/ OutboxSendLoop(r, keep)
  \/ OutboxSendReport(r, keep)

\* the steps of a purge request
PurgeSteps(r, keep, events, methods) ==
  \/ \E e \in events, pk \in Ids, m \in methods : OutboxPurgeDispatch(r, keep, e, pk, m)
  \/ OutboxPurgeDelete(r, keep)
  \/ \E e \in events : OutboxPurgeGet(r, keep, e)
  \/ \E e \in events : OutboxPurgePost(r, keep, e)
  \/ OutboxPurgeQsDelete(r, keep)

\* the steps of a mail detail or mail copy request
EditSteps(r, keep, events, forms) ==
  \/ \E e \in events, pk \in Ids, f \in forms : MailDetailPost(r, keep, e, pk, f)
  \/ MailDetailFormValid(r, keep)
  \/ MailDetailSend(r, keep)
  \/ \E e \in events, pk \in Ids : MailCopyDispatch(r, keep, e, pk)

Methods == {"GET", "POST"}

\* requests handled one after the other, each kept on record once answered
Next ==
  \/ Compose(1, TRUE, Events)
  \/ SendSteps(1, TRUE, Events, Methods)
  \/ PurgeSteps(1, TRUE, Events, Methods)
  \/ EditSteps(1, TRUE, Events, DetailForms)
  \/ Respond(1)

Spec == Init /\ [][Next]_vars

\* the slots of two requests that run concurrently
Racers == {1, 2}

\* two send requests in flight together
NextSend ==
  \E r \in Racers : Compose(r, FALSE, Events) \/ SendSteps(r, FALSE, Events, {"POST"})

SpecSend == Init /\ [][NextSend]_vars

\* all requests of one event in flight together
NextConc ==
  \E r \in Slots :
    \/ Compose(r, FALSE, {"E1"})
    \/ SendSteps(r, FALSE, {"E1"}, {"POST"})
    \/ PurgeSteps(r, FALSE, {"E1"}, {"POST"})
    \/ EditSteps(r, FALSE, {"E1"}, DetailForms)

SpecConc == Init /\ [][NextConc]_vars

\* the filter combinations enumerated in SpecCompose:
\* <<submissions, tracks, submission_types, recipients>>
ComposeFilters ==
  { <<{}, {}, {}, {}>>,
    <<{"s1"}, {}, {}, {}>>,
    <<{"s2", "s4"}, {"t1"}, {}, {}>>,
    <<{}, {}, {"ty1"}, {}>>,
    <<{}, {}, {}, {"reviewers"}>>,
    <<{}, {}, {}, {"no_slides", "submitted"}>>,
    <<{"s1"}, {"t1"}, {"ty1"}, {"reviewers", "no_slides", "confirmed"}>> }

\* the three-address text "a, A, b"
ExampleRecipients == <<"a", ",", " ", "A", ",", " ", "b">>

\* the compose forms enumerated in SpecCompose: the filter combinations with
\* every additional_recipients text of at most MaxLen characters and the example
ComposeForms ==
  { Form(c[1], c[2], c[3], c[4], additional, 1, "save") :
      c \in ComposeFilters,
      additional \in Strings(MaxLen) \cup {ExampleRecipients} }

\* one compose submission, the first request the event ever gets
ComposeOnce ==
  /\ nextId = 1
  /\ Free(1)
  /\ \E e \in Events, f \in ComposeForms : ComposeMailFormValid(1, TRUE, e, f)

SpecCompose == Init /\ [][ComposeOnce]_vars

(* ------------------------------ properties ----------------------------- *)
\* the request slot 1 has answered, as kept on record in Spec and SpecCompose
Answered(view) == pc[1] = "done" /\ req[1].view = view

\* the rows of event e in table d whose `sent` is NULL
UnsentOf(d, e) == {id \in DOMAIN d : d[id].event = e /\ d[id].sent = 0}

\* row id of table d is a row of event e with `sent` set
SentIn(d, e, id) == id \in DOMAIN d /\ d[id].event = e /\ d[id].sent # 0

\* C1: a single-record send, a single-record purge or a valid edit submission
\* aimed at a mail of the event whose `sent` is set leaves the whole table as it
\* was, calls neither send nor delete (nor anything else), and emits one error
C1_SentMailIsRefused ==
  (/\ pc[1] = "done"
   /\ req[1].view \in {"OutboxSend", "OutboxPurge", "MailDetail"}
   /\ SentIn(pre[1], req[1].event, req[1].pk))
  => /\ db = pre[1]
     /\ trace[1] = <<>>
     /\ Len(msgs[1]) = 1
     /\ msgs[1][1].level = "error"

\* C1 witness: a save-and-send edit of an already sent mail has been refused
C1_Witness ==
  /\ Answered("MailDetail")
  /\ req[1].form.action = "send"
  /\ SentIn(pre[1], req[1].event, req[1].pk)
  /\ msgs[1][1].level = "error"

\* C2: a single-record send of an unsent mail calls mail.send once, leaves `sent`
\* set and reports success; a later one for the same id calls nothing, changes
\* nothing and reports an error; so no mail is ever delivered twice
C2_SendOnce ==
  /\ \A id \in Ids : sendCount[id] <= 1
  /\ (Answered("OutboxSend") /\ req[1].pk # 0 /\ req[1].pk \in DOMAIN pre[1]
      /\ pre[1][req[1].pk].event = req[1].event)
     => LET pk == req[1].pk
        IN  IF pre[1][pk].sent = 0
            THEN /\ trace[1] = <<Call("send", pk, "")>>
                 /\ pk \in DOMAIN db
                 /\ db[pk].sent # 0
                 /\ sendCount[pk] = 1
                 /\ Len(msgs[1]) = 1
                 /\ msgs[1][1].level = "success"
            ELSE /\ trace[1] = <<>>
                 /\ db = pre[1]
                 /\ Len(msgs[1]) = 1
                 /\ msgs[1][1].level = "error"

\* C2 witness: the second send of a mail that was delivered once has been refused
C2_Witness ==
  /\ Answered("OutboxSend")
  /\ req[1].pk # 0
  /\ SentIn(pre[1], req[1].event, req[1].pk)
  /\ sendCount[req[1].pk] = 1
  /\ trace[1] = <<>>

\* C3: the count in the compose success message is the number of QueuedMail rows
\* the submission created (one per distinct user plus one per address matching no
\* user); for "a, A, b" alone, with a a user's address, it is 2
C3_ReportedCount ==
  Answered("ComposeMail")
  => /\ msgs[1][1].count = Cardinality(DOMAIN db \ DOMAIN pre[1])
     /\ msgs[1][1].count = Len(trace[1])
     /\ (/\ req[1].form.additional_recipients = ExampleRecipients
         /\ req[1].form.submissions = {}
         /\ req[1].form.tracks = {}
         /\ req[1].form.submission_types = {}
         /\ req[1].form.recipients = {})
        => msgs[1][1].count = 2

\* the comma-separated pieces of a text, by position
Pieces(t) ==
  {SubSeq(t, x[1], x[2]) :
     x \in {y \in (1..(Len(t) + 1)) \X (0..Len(t)) :
              /\ y[2] >= y[1] - 1
              /\ y[1] = 1 \/ t[y[1] - 1] = ","
              /\ y[2] = Len(t) \/ t[y[2] + 1] = ","
              /\ \A k \in y[1]..y[2] : t[k] # ","}}

\* address a is user u's address, up to case
SameAddress(a, u) ==
  /\ Len(a) = Len(UserEmail[u])
  /\ \A i \in 1..Len(a) : LowerChar(a[i]) = LowerChar(UserEmail[u][i])

\* piece p of the recipients text is address a with blanks around it
Surrounds(p, a) ==
  \E i \in 1..(Len(p) + 1) :
    /\ i + Len(a) - 1 <= Len(p)
    /\ SubSeq(p, i, i + Len(a) - 1) = a
    /\ \A k \in 1..Len(p) : (k < i \/ k > i + Len(a) - 1) => p[k] = " "

\* user u is selected by a submission, track, type or category criterion of form f,
\* or by one of its additional addresses
Selected(u, e, f) ==
  \/ \E sub \in Submissions :
       /\ sub.event = e
       /\ u \in sub.speakers
       /\ \/ sub.code \in f.submissions
          \/ sub.track \in f.tracks
          \/ sub.type \in f.submission_types
          \/ sub.state \in f.recipients
          \/ "no_slides" \in f.recipients /\ sub.state = "confirmed" /\ sub.resources = 0
  \/ /\ "reviewers" \in f.recipients
     /\ \E t \in Teams : t.event = e /\ t.is_reviewer /\ u \in t.members
  \/ \E p \in Pieces(f.additional_recipients) :
       \E a \in {SubSeq(p, i, j) : i \in 1..Len(p), j \in 1..Len(p)} :
         a # <<>> /\ Surrounds(p, a) /\ SameAddress(a, u)

\* C4: one compose submission creates exactly one per-user row, with that user
\* alone in to_users, for each selected user, none for any other user, and no
\* raw-address row for an address that is some user's address up to case
C4_OneMailPerUser ==
  Answered("ComposeMail")
  => LET new == DOMAIN db \ DOMAIN pre[1]
     IN  /\ \A u \in Users :
              Cardinality({id \in new : u \in db[id].to_users})
                = IF Selected(u, req[1].event, req[1].form) THEN 1 ELSE 0
         /\ \A id \in new :
              /\ Cardinality(db[id].to_users) <= 1
              /\ (db[id].to_users # {}) = (db[id].to = <<>>)
              /\ \A u \in Users : ~SameAddress(db[id].to, u)

\* C4 witness: user u1, selected by a submission and by two spellings of the
\* address, got a single row
C4_Witness ==
  /\ Answered("ComposeMail")
  /\ req[1].event = "E1"
  /\ req[1].form.submissions = {"s1"}
  /\ req[1].form.additional_recipients = <<"a", ",", "A">>
  /\ Cardinality({id \in DOMAIN db : db[id].to_users = {"u1"}}) = 1
  /\ Cardinality(DOMAIN db) = 1

\* C5: a bulk purge of event E removes exactly E's unsent rows, leaves every other
\* row as it was, and reports the number of rows it removed
C5_BulkPurge ==
  (Answered("OutboxPurge") /\ req[1].pk = 0 /\ req[1].method = "POST")
  => /\ DOMAIN db = DOMAIN pre[1] \ UnsentOf(pre[1], req[1].event)
     /\ \A id \in DOMAIN db : db[id] = pre[1][id]
     /\ Len(msgs[1]) = 1
     /\ msgs[1][1].level = "success"
     /\ msgs[1][1].count = Cardinality(DOMAIN pre[1] \ DOMAIN db)

\* C5 witness: a bulk purge removed a row and a sent row of the event is still there
C5_Witness ==
  /\ Answered("OutboxPurge")
  /\ req[1].pk = 0
  /\ req[1].method = "POST"
  /\ DOMAIN pre[1] \ DOMAIN db # {}
  /\ \E id \in DOMAIN db : SentIn(db, req[1].event, id)

\* C6: a bulk send of event E calls mail.send once on each of E's unsent rows and
\* on no other row, reports the number of calls, stamps the rows it sent, leaves
\* every other row as it was, and leaves E's outbox empty
C6_BulkSend ==
  (Answered("OutboxSend") /\ req[1].pk = 0 /\ req[1].method = "POST")
  => LET unsent == UnsentOf(pre[1], req[1].event)
     IN  /\ Len(trace[1]) = Cardinality(unsent)
         /\ {trace[1][i].pk : i \in 1..Len(trace[1])} = unsent
         /\ \A i \in 1..Len(trace[1]) : trace[1][i].op = "send"
         /\ Len(msgs[1]) = 1
         /\ msgs[1][1].level = "success"
         /\ msgs[1][1].count = Len(trace[1])
         /\ DOMAIN db = DOMAIN pre[1]
         /\ \A id \in DOMAIN db :
              IF id \in unsent
              THEN db[id].sent # 0 /\ db[id] = [pre[1][id] EXCEPT !.sent = db[id].sent]
              ELSE db[id] = pre[1][id]
         /\ UnsentOf(db, req[1].event) = {}

\* C6 witness: a bulk send delivered a mail next to one that had been sent before
C6_Witness ==
  /\ Answered("OutboxSend")
  /\ req[1].pk = 0
  /\ req[1].method = "POST"
  /\ Len(trace[1]) >= 1
  /\ \E id \in DOMAIN pre[1] : SentIn(pre[1], req[1].event, id)

\* C7: a send or purge request with a record id never takes the bulk path,
\* whatever its method: an id that is missing from the event or names a sent mail
\* changes nothing and gives an error; an id of an unsent mail sends or deletes
\* (audit entry first) that row only
C7_PkNeverBulk ==
  (req[1].view \in {"OutboxSend", "OutboxPurge"} /\ req[1].pk # 0)
  => /\ pc[1] \notin {"send_fetch", "send_loop", "purge_all"}
     /\ pc[1] = "done"
        => LET pk == req[1].pk
               unsent == pk \in UnsentOf(pre[1], req[1].event)
           IN  IF ~unsent
               THEN /\ db = pre[1]
                    /\ trace[1] = <<>>
                    /\ Len(msgs[1]) = 1
                    /\ msgs[1][1].level = "error"
               ELSE /\ \A id \in DOMAIN pre[1] \ {pk} : id \in DOMAIN db /\ db[id] = pre[1][id]
                    /\ DOMAIN db \subseteq DOMAIN pre[1]
                    /\ IF req[1].view = "OutboxSend"
                       THEN /\ trace[1] = <<Call("send", pk, "")>>
                            /\ pk \in DOMAIN db
                            /\ db[pk].sent # 0
                            /\ db[pk] = [pre[1][pk] EXCEPT !.sent = db[pk].sent]
                       ELSE /\ trace[1] = <<Call("log", pk, "pretalx.mail.delete"),
                                            Call("delete", pk, "")>>
                            /\ pk \notin DOMAIN db

\* C7 witness: a GET purge of one unsent mail left another unsent mail of the
\* same event in the outbox
C7_Witness ==
  /\ Answered("OutboxPurge")
  /\ req[1].pk # 0
  /\ req[1].method = "GET"
  /\ req[1].pk \in UnsentOf(pre[1], req[1].event)
  /\ req[1].pk \notin DOMAIN db
  /\ UnsentOf(db, req[1].event) # {}

\* some request in flight is a send request aimed at row id of table d
SendAimedAt(d, id) ==
  \E r \in Racers :
    /\ pc[r] \in {"send", "send_loop"}
    /\ req[r].view = "OutboxSend"
    /\ req[r].event = d[id].event
    /\ req[r].pk \in {0, id}

\* C8: whatever the interleaving of send requests, no row is ever deleted, a row
\* changes only by a send request aimed at it stamping its `sent`, and a
\* delivered row has `sent` set
C8_SendRaceIsBenign ==
  [][ /\ \A id \in DOMAIN db :
           /\ id \in DOMAIN db'
           /\ db'[id] # db[id]
              => /\ db'[id].sent # 0
                 /\ db'[id] = [db[id] EXCEPT !.sent = db'[id].sent]
                 /\ SendAimedAt(db, id)
      /\ \A id \in Ids : sendCount'[id] > 0 => (id \in DOMAIN db' /\ db'[id].sent # 0) ]_vars

\* C8 witness: two send requests both found a mail unsent and it was delivered twice
C8_Witness ==
  \E id \in DOMAIN db : sendCount[id] = 2 /\ db[id].sent # 0

\* C9: a row is deleted only while its `sent` is NULL, and `sent`, once set, is
\* never NULL again
C9_DeletedOnlyWhileUnsent ==
  [][ \A id \in DOMAIN db :
        /\ id \notin DOMAIN db' => db[id].sent = 0
        /\ (id \in DOMAIN db' /\ db[id].sent # 0) => db'[id].sent # 0 ]_vars

\* the audit entries among the calls of a request
AuditEntries(calls) == SelectSeq(calls, LAMBDA c : c.op = "log")

\* C10: a saved edit whose values changed writes one audit entry, tagged create
\* for a fresh draft and update for an existing record, and none when nothing
\* changed; 'send' sends after the save, 'save' never sends
C10_AuditTag ==
  (Answered("MailDetail") /\ Len(trace[1]) > 0)
  => LET existed == req[1].pk \in DOMAIN pre[1] /\ pre[1][req[1].pk].event = req[1].event
         before == IF existed THEN pre[1][req[1].pk].text ELSE 0
         pk == trace[1][1].pk
         tag == IF existed THEN "pretalx.mail.update" ELSE "pretalx.mail.create"
     IN  /\ trace[1][1] = Call("save", pk, "")
         /\ AuditEntries(trace[1])
              = IF req[1].form.text # before THEN <<Call("log", pk, tag)>> ELSE <<>>
         /\ \A i \in 1..Len(trace[1]) :
              trace[1][i].op = "send" => (i > 1 /\ req[1].form.action = "send")

====
